---- MODULE Spec2Model ----
(***************************************************************************)
(* Model of the Blinkt! adapter (src/blinkt-adapter.js): eight RGB LEDs    *)
(* whose on/color/level properties are serialised onto a data line and a   *)
(* clock line, with the transmissions batched by a 100 ms timer.           *)
(***************************************************************************)
EXTENDS Integers, Sequences, FiniteSets, TLC

(***************************************************************************)
(* Bounds of the model.                                                    *)
(***************************************************************************)
\* how many setValue calls the host makes
MaxSets == 2
\* how many timer handles can be outstanding at once
MaxTimers == 2
\* the step by which time advances
Quantum == 50
\* how many line writes may fail
MaxFaults == 2
\* the age up to which a timer is followed
MaxAge == 200

(***************************************************************************)
(* Constants of the program.                                               *)
(***************************************************************************)
NumLeds == 8
Delay == 100
SofBits == 32
EofBits == 36
DefaultLevel == 8
MaxLevel == 100

Leds == 0 .. (NumLeds - 1)

\* the LEDs the host sets: the first and the last of the chain
Settable == {0, NumLeds - 1}

(***************************************************************************)
(* Color strings are sequences of characters.                              *)
(***************************************************************************)
White == <<"#", "f", "f", "f", "f", "f", "f">>
Green == <<"#", "0", "0", "f", "f", "0", "0">>
Teal  == <<"#", "1", "2", "8", "0", "C", "4">>
Malformed == <<"#", "z", "z">>

OnValues == BOOLEAN
ColorValues == {White, Teal, Malformed}
LevelValues == {DefaultLevel, MaxLevel}

Values(name) ==
  CASE name = "on" -> OnValues
    [] name = "color" -> ColorValues
    [] name = "level" -> LevelValues

PropertyNames == {"on", "color", "level"}

(***************************************************************************)
(* 32-bit integer arithmetic of the bitwise operators.                     *)
(* A value is the signed integer the operators yield; bit 31 is the sign.   *)
(***************************************************************************)
Pow2(n) == 2 ^ n
MinInt32 == (0 - Pow2(30)) - Pow2(30)

BitOf(n, k) == IF k = 31 THEN (IF n < 0 THEN 1 ELSE 0) ELSE (n \div Pow2(k)) % 2

\* the integer whose bits are bit[0 .. 31]
FromBits(bit) ==
  LET low[k \in 0 .. 30] ==
        (IF bit[k] = 1 THEN Pow2(k) ELSE 0) + (IF k = 0 THEN 0 ELSE low[k - 1])
  IN (IF bit[31] = 1 THEN MinInt32 ELSE 0) + low[30]

BitOr(a, b) ==
  FromBits([k \in 0 .. 31 |-> IF BitOf(a, k) = 1 \/ BitOf(b, k) = 1 THEN 1 ELSE 0])
BitAnd(a, b) ==
  FromBits([k \in 0 .. 31 |-> IF BitOf(a, k) = 1 /\ BitOf(b, k) = 1 THEN 1 ELSE 0])
ShiftLeft1(a) ==
  FromBits([k \in 0 .. 31 |-> IF k = 0 THEN 0 ELSE BitOf(a, k - 1)])

\* Math.round of the rational n / d (d > 0): the nearest integer, halves up
MathRound(n, d) == (2 * n + d) \div (2 * d)

(***************************************************************************)
(* Color(string): the hexadecimal forms, anything else throws.             *)
(***************************************************************************)
HexChars == <<"0", "1", "2", "3", "4", "5", "6", "7", "8", "9",
              "a", "b", "c", "d", "e", "f">>
UpperHex == <<"0", "1", "2", "3", "4", "5", "6", "7", "8", "9",
              "A", "B", "C", "D", "E", "F">>
IsHex(c) == \E i \in 1 .. 16 : HexChars[i] = c \/ UpperHex[i] = c
HexVal(c) == (CHOOSE i \in 1 .. 16 : HexChars[i] = c \/ UpperHex[i] = c) - 1

Parseable(s) ==
  /\ Len(s) \in {4, 7}
  /\ s[1] = "#"
  /\ \A i \in 2 .. Len(s) : IsHex(s[i])

Color(s) ==
  IF Len(s) = 7
  THEN [red   |-> 16 * HexVal(s[2]) + HexVal(s[3]),
        green |-> 16 * HexVal(s[4]) + HexVal(s[5]),
        blue  |-> 16 * HexVal(s[6]) + HexVal(s[7])]
  ELSE [red   |-> 17 * HexVal(s[2]),
        green |-> 17 * HexVal(s[3]),
        blue  |-> 17 * HexVal(s[4])]

(***************************************************************************)
(* State.                                                                  *)
(***************************************************************************)
VARIABLES
  chain,        \* chain[x]: the on, color and level values of LED x
  pendingSend,  \* adapter.pendingSend
  timer,        \* adapter.timer: the handle of the latest setTimeout (0: none yet)
  timers,       \* timers[id]: age of outstanding timer id, -1 when not outstanding
  pc,           \* position of doSendProperties: "idle", "dev" or "eof"
  x,            \* loop index of doSendProperties
  gpioDAT,      \* value of the data line
  gpioCLK,      \* value of the clock line
  wire,         \* the line writes of the current (or latest) doSendProperties run
  bits,         \* the bits that run has transmitted, one for each clock pulse
  outcome,      \* how the latest run ended: "none", "ok" or "failed"
  snap,         \* chain when the latest run started
  requested,    \* chain when the scheduler last went from idle to pending
  sets,         \* number of setValue calls
  requests,     \* number of sendProperties calls
  bursts,       \* number of groups of sendProperties calls less than Delay apart
  flushes,      \* number of doSendProperties runs started
  ended,        \* number of doSendProperties runs ended (returned or thrown)
  faults,       \* number of failed line writes
  sinceSignal,  \* time since the latest sendProperties call, at most Delay
  unsent,       \* time since the earliest setValue that changed a value no run
                \* has started to send yet, -1 when there is none
  q             \* input and result of the quantisation, for SpecQ

vars == <<chain, pendingSend, timer, timers, pc, x, gpioDAT, gpioCLK, wire, bits,
          outcome, snap, requested, sets, requests, bursts, flushes, ended,
          faults, sinceSignal, unsent, q>>

(***************************************************************************)
(* The GPIO lines.  A write is a pair <<line, value>>; a bit is transmitted *)
(* by a write to the data line and a pulse of the clock line.              *)
(***************************************************************************)
\* the value of a line after the first i writes of ws, v0 being its value
\* before them: the value of the latest of these writes that is to the line
RECURSIVE LineAfter(_, _, _, _)
LineAfter(ws, line, i, v0) ==
  IF i = 0 THEN v0
  ELSE IF ws[i][1] = line THEN ws[i][2]
  ELSE LineAfter(ws, line, i - 1, v0)

NoSample == 2
IsSample(v) == v # NoSample

\* the bits the writes ws transmit: the value of the data line at each write
\* of 1 to the clock line
Transmitted(ws, dat0) ==
  SelectSeq([i \in 1 .. Len(ws) |->
               IF ws[i] = <<"CLK", 1>>
               THEN LineAfter(ws, "DAT", i - 1, dat0)
               ELSE NoSample],
            IsSample)

(***************************************************************************)
(* The encoder: each operation is the sequence of line writes it makes.    *)
(***************************************************************************)
\* variant: the clock is raised before the data line is written
write_bit_clockFirst(b) == << <<"CLK", 1>>, <<"DAT", b>>, <<"CLK", 0>> >>

write_bit(b) == << <<"DAT", b>>, <<"CLK", 1>>, <<"CLK", 0>> >>

RECURSIVE write_byte_from(_, _)
write_byte_from(byte, n) ==
  IF n = 8 THEN <<>>
  ELSE write_bit(IF BitAnd(byte, 128) # 0 THEN 1 ELSE 0)
       \o write_byte_from(ShiftLeft1(byte), n + 1)

write_byte(byte) == write_byte_from(byte, 0)

\* ws made n times over
RECURSIVE Repeat(_, _)
Repeat(ws, n) ==
  IF n = 0 THEN <<>>
  ELSE IF n = 1 THEN ws
  ELSE Repeat(ws, n \div 2) \o Repeat(ws, n - (n \div 2))

sof == Repeat(write_bit(0), SofBits)

\* variant: the end frame is as long as the start frame
eof_short == Repeat(write_bit(0), SofBits)

eof == Repeat(write_bit(0), EofBits)

\* variant: the quotient is truncated, not rounded
Quantize_trunc(lvl) == (lvl * 15) \div 100

Quantize(lvl) == MathRound(lvl * 15, 100)

\* variant: the colour bytes go out red first
sendDeviceProperties_rgb(lvl, col) ==
  write_byte(BitOr(224, Quantize(lvl)))
  \o write_byte(col.red)
  \o write_byte(col.green)
  \o write_byte(col.blue)

sendDeviceProperties(lvl, col) ==
  write_byte(BitOr(224, Quantize(lvl)))
  \o write_byte(col.blue)
  \o write_byte(col.green)
  \o write_byte(col.red)

\* variant: the values are those of the moment the send was requested
DeviceProps_requested(i) == requested[i]

\* the property values BlinktDevice.sendProperties reads for LED i
DeviceProps(i) == chain[i]

\* variant: the level goes out whether the LED is on or not
EffectiveLevel_ignoreOn(p) == p.level

EffectiveLevel(p) == IF ~p.on THEN 0 ELSE p.level

DeviceSendProperties(i) ==
  LET p == DeviceProps(i)
  IN sendDeviceProperties(EffectiveLevel(p), Color(p.color))

(***************************************************************************)
(* The scheduler.                                                          *)
(***************************************************************************)
TimerIds == 1 .. MaxTimers
Outstanding == { id \in TimerIds : timers[id] >= 0 }

\* variant: doSendProperties yields to the event loop between its steps
LoopFree_async == TRUE

\* doSendProperties runs to its end before any other callback starts
LoopFree == pc = "idle"

clearTimeout(tms, id) ==
  [i \in TimerIds |-> IF i = id THEN -1 ELSE tms[i]]

\* variant: the pending timer is left running
CancelPending_none(pending, tms, id) == tms

\* sendProperties: a pending timer is cleared
CancelPending(pending, tms, id) ==
  IF pending THEN clearTimeout(tms, id) ELSE tms

FreeIds(tms) == { id \in TimerIds : tms[id] < 0 }
NewId(tms) == CHOOSE id \in FreeIds(tms) : \A j \in FreeIds(tms) : id <= j

\* variant: while a send is pending the running timer is kept and no new one
\* is started
Scheduled_throttle(pending, tms, id) ==
  IF pending
  THEN [timers |-> tms, timer |-> id]
  ELSE [timers |-> [tms EXCEPT ![NewId(tms)] = 0], timer |-> NewId(tms)]

\* variant: setTimeout is called without its delay
Scheduled_noDelay(pending, tms, id) ==
  LET cleared == CancelPending(pending, tms, id)
  IN [timers |-> [cleared EXCEPT ![NewId(cleared)] = Delay],
      timer |-> NewId(cleared)]

\* sendProperties: the timers and adapter.timer it leaves
Scheduled(pending, tms, id) ==
  LET cleared == CancelPending(pending, tms, id)
  IN [timers |-> [cleared EXCEPT ![NewId(cleared)] = 0],
      timer |-> NewId(cleared)]

\* variant: the timer is an interval timer, armed again when it fires
Expire_interval(tms, id) == [i \in TimerIds |-> IF i = id THEN 0 ELSE tms[i]]

\* variant: a timer whose callback has run stays due, and the callback is run
\* again
Expire_keep(tms, id) == tms

\* a timer that fires is no longer outstanding
Expire(tms, id) == clearTimeout(tms, id)

\* sendProperties, called in the chain state newChain
sendProperties(newChain) ==
  /\ FreeIds(CancelPending(pendingSend, timers, timer)) # {}
  /\ pendingSend' = TRUE
  /\ timers' = Scheduled(pendingSend, timers, timer).timers
  /\ timer' = Scheduled(pendingSend, timers, timer).timer
  /\ requests' = requests + 1
  /\ bursts' = IF sinceSignal >= Delay THEN bursts + 1 ELSE bursts
  /\ sinceSignal' = 0
  /\ requested' = IF pendingSend THEN requested ELSE newChain

(***************************************************************************)
(* The properties.                                                         *)
(***************************************************************************)
setCachedValue(name, value) == IF name = "on" THEN (value = TRUE) ELSE value

\* variant: the value is compared after it has been stored
Changed_afterStore(current, value) == FALSE

\* variant: every set counts as a change
Changed_always(current, value) == TRUE

Changed(current, value) == current # value

DefaultChain ==
  [i \in Leds |-> [on |-> FALSE, color |-> White, level |-> DefaultLevel]]

\* variant: a changed value is sent at once, doSendProperties being called
\* from setValue instead of a timer being started
SetValue_flushNow(i, name, value) ==
  /\ LoopFree
  /\ sets < MaxSets
  /\ sets' = sets + 1
  /\ LET changed == Changed(chain[i][name], value)
         newChain == [chain EXCEPT ![i][name] = setCachedValue(name, value)]
     IN /\ chain' = newChain
        /\ IF changed
           THEN /\ snap' = newChain
                /\ flushes' = flushes + 1
                /\ gpioDAT' = LineAfter(sof, "DAT", Len(sof), gpioDAT)
                /\ gpioCLK' = LineAfter(sof, "CLK", Len(sof), gpioCLK)
                /\ wire' = sof
                /\ bits' = Transmitted(sof, gpioDAT)
                /\ pc' = "dev"
                /\ x' = 0
                /\ outcome' = "running"
           ELSE UNCHANGED <<snap, flushes, gpioDAT, gpioCLK, wire, bits, pc, x,
                            outcome>>
  /\ UNCHANGED <<pendingSend, timer, timers, requests, bursts, sinceSignal,
                 requested, unsent, ended, faults, q>>

\* BlinktProperty.setValue on property name of LED i
SetValue(i, name, value) ==
  /\ LoopFree
  /\ sets < MaxSets
  /\ sets' = sets + 1
  /\ LET changed == Changed(chain[i][name], value)
         newChain == [chain EXCEPT ![i][name] = setCachedValue(name, value)]
     IN /\ chain' = newChain
        /\ unsent' = IF changed /\ unsent < 0 THEN 0 ELSE unsent
        /\ IF changed
           THEN sendProperties(newChain)
           ELSE UNCHANGED <<pendingSend, timer, timers, requests, bursts,
                            sinceSignal, requested>>
  /\ UNCHANGED <<pc, x, gpioDAT, gpioCLK, wire, bits, outcome, snap, flushes,
                 ended, faults, q>>

(***************************************************************************)
(* doSendProperties, in three kinds of step: _sof(), one device, _eof().   *)
(* A line write may throw: f = 0 is a step without a failure, f > 0 is the *)
(* step whose f-th write throws.                                           *)
(***************************************************************************)
\* the writes of a run that the model lets fail, counted from the run's first
FaultWrites == {2, 3, 400}

\* done is the number of writes the run has made before the step
FaultChoices(done, ws) ==
  {0} \cup (IF faults < MaxFaults
            THEN { f \in 1 .. Len(ws) : done + f \in FaultWrites }
            ELSE {})

Performed(ws, f) == IF f = 0 THEN ws ELSE SubSeq(ws, 1, f - 1)

\* the writes ws are made, after the writes w0 that transmitted the bits b0
Emit(w0, b0, ws) ==
  /\ gpioDAT' = LineAfter(ws, "DAT", Len(ws), gpioDAT)
  /\ gpioCLK' = LineAfter(ws, "CLK", Len(ws), gpioCLK)
  /\ bits' = b0 \o Transmitted(ws, gpioDAT)
  /\ wire' = w0 \o ws

\* variant: the exception is caught and the run goes on with its next step
Throw_swallow ==
  /\ pc' = (IF pc = "idle" THEN "dev"
            ELSE IF pc = "eof" THEN "idle"
            ELSE IF x + 1 < NumLeds THEN "dev" ELSE "eof")
  /\ x' = (IF pc = "dev" THEN x + 1 ELSE 0)
  /\ outcome' = (IF pc = "eof" THEN "ok" ELSE "running")
  /\ ended' = (IF pc = "eof" THEN ended + 1 ELSE ended)

\* an exception leaves doSendProperties and the timer callback
Throw ==
  /\ pc' = "idle"
  /\ x' = 0
  /\ outcome' = "failed"
  /\ ended' = ended + 1

\* the step at position (pc, x) makes the writes ws, the f-th failing, and
\* goes on to (npc, nx)
Step(w0, b0, ws, f, npc, nx) ==
  /\ Emit(w0, b0, Performed(ws, f))
  /\ IF f = 0
     THEN /\ pc' = npc
          /\ x' = nx
          /\ outcome' = IF npc = "idle" THEN "ok" ELSE "running"
          /\ ended' = IF npc = "idle" THEN ended + 1 ELSE ended
          /\ faults' = faults
     ELSE /\ Throw
          /\ faults' = faults + 1

\* the timer callback: doSendProperties up to its loop
TimerFire(id) ==
  /\ LoopFree
  /\ timers[id] >= Delay
  /\ timers' = Expire(timers, id)
  /\ pendingSend' = FALSE
  /\ flushes' = flushes + 1
  /\ snap' = chain
  /\ unsent' = -1
  /\ \E f \in FaultChoices(0, sof) : Step(<<>>, <<>>, sof, f, "dev", 0)
  /\ UNCHANGED <<chain, timer, requested, sets, requests, bursts, sinceSignal, q>>

\* one iteration of the loop: BlinktDevice.sendProperties of LED x
DevStep ==
  /\ pc = "dev"
  /\ IF ~Parseable(DeviceProps(x).color)
     THEN /\ Throw
          /\ UNCHANGED <<gpioDAT, gpioCLK, wire, bits, faults>>
     ELSE LET ws == DeviceSendProperties(x)
          IN \E f \in FaultChoices(Len(wire), ws) :
               Step(wire, bits, ws, f,
                    IF x + 1 < NumLeds THEN "dev" ELSE "eof", x + 1)
  /\ UNCHANGED <<chain, pendingSend, timer, timers, snap, requested, sets,
                 requests, bursts, flushes, sinceSignal, unsent, q>>

\* _eof() and the return of doSendProperties
EofStep ==
  /\ pc = "eof"
  /\ \E f \in FaultChoices(Len(wire), eof) : Step(wire, bits, eof, f, "idle", 0)
  /\ UNCHANGED <<chain, pendingSend, timer, timers, snap, requested, sets,
                 requests, bursts, flushes, sinceSignal, unsent, q>>

(***************************************************************************)
(* Time.  The callback of a timer runs when Delay has passed and the event *)
(* loop gets to it: a timer can be outstanding at any age, up to MaxAge    *)
(* in the model.                                                           *)
(***************************************************************************)
TickSizes == {Quantum}

Min(a, b) == IF a <= b THEN a ELSE b

Tick(d) ==
  /\ \A id \in Outstanding : timers[id] + d <= MaxAge
  /\ timers' = [id \in TimerIds |->
                  IF timers[id] < 0 THEN -1 ELSE timers[id] + d]
  /\ sinceSignal' = Min(sinceSignal + d, Delay)
  /\ unsent' = IF unsent < 0 THEN -1 ELSE unsent + d
  /\ UNCHANGED <<chain, pendingSend, timer, pc, x, gpioDAT, gpioCLK, wire, bits,
                 outcome, snap, requested, sets, requests, bursts, flushes,
                 ended, faults, q>>

(***************************************************************************)
(* The state after new BlinktAdapter(...): eight devices with their        *)
(* defaults, and the constructor's sendProperties() call made.             *)
(***************************************************************************)
NoQ == [a |-> 0, b |-> 0, qa |-> 0, qb |-> 0, done |-> FALSE]

\* variant: the constructor does not call sendProperties()
InitProgram_noSend ==
  /\ chain = DefaultChain
  /\ pendingSend = FALSE
  /\ timer = 0
  /\ timers = [id \in TimerIds |-> -1]
  /\ pc = "idle"
  /\ x = 0
  /\ gpioDAT = 0
  /\ gpioCLK = 0
  /\ wire = <<>>
  /\ bits = <<>>
  /\ outcome = "none"
  /\ snap = DefaultChain
  /\ requested = DefaultChain
  /\ sets = 0
  /\ requests = 0
  /\ bursts = 0
  /\ flushes = 0
  /\ ended = 0
  /\ faults = 0
  /\ sinceSignal = Delay
  /\ unsent = -1

InitProgram ==
  /\ chain = DefaultChain
  /\ pendingSend = TRUE
  /\ timer = 1
  /\ timers = [id \in TimerIds |-> IF id = 1 THEN 0 ELSE -1]
  /\ pc = "idle"
  /\ x = 0
  /\ gpioDAT = 0
  /\ gpioCLK = 0
  /\ wire = <<>>
  /\ bits = <<>>
  /\ outcome = "none"
  /\ snap = DefaultChain
  /\ requested = DefaultChain
  /\ sets = 0
  /\ requests = 1
  /\ bursts = 1
  /\ flushes = 0
  /\ ended = 0
  /\ faults = 0
  /\ sinceSignal = 0
  /\ unsent = -1

Init == InitProgram /\ q = NoQ

Next ==
  \/ \E i \in Settable, name \in PropertyNames :
       \E value \in Values(name) : SetValue(i, name, value)
  \/ \E id \in TimerIds : TimerFire(id)
  \/ DevStep
  \/ EofStep
  \/ \E d \in TickSizes : Tick(d)

Spec == Init /\ [][Next]_vars

(***************************************************************************)
(* The quantisation on its own: two levels of 0 .. MaxLevel are quantised. *)
(***************************************************************************)
InitQ ==
  /\ InitProgram
  /\ q \in [a : 0 .. MaxLevel, b : 0 .. MaxLevel, qa : {0}, qb : {0},
            done : {FALSE}]

ApplyQuantize ==
  /\ ~q.done
  /\ q' = [q EXCEPT !.qa = Quantize(q.a), !.qb = Quantize(q.b), !.done = TRUE]
  /\ UNCHANGED <<chain, pendingSend, timer, timers, pc, x, gpioDAT, gpioCLK,
                 wire, bits, outcome, snap, requested, sets, requests, bursts,
                 flushes, ended, faults, sinceSignal, unsent>>

NextQ == ApplyQuantize

SpecQ == InitQ /\ [][NextQ]_vars

(***************************************************************************)
(* What a run has transmitted, read back from its bits.                    *)
(***************************************************************************)
FrameBits == 4 * 8

\* the byte whose most significant bit is bs[k]
ByteAt(bs, k) ==
  128 * bs[k] + 64 * bs[k + 1] + 32 * bs[k + 2] + 16 * bs[k + 3]
  + 8 * bs[k + 4] + 4 * bs[k + 5] + 2 * bs[k + 6] + bs[k + 7]

\* the four bytes of the frame that starts after the first off bits of bs
BytesAfter(bs, off) ==
  <<ByteAt(bs, off + 1), ByteAt(bs, off + 9), ByteAt(bs, off + 17),
    ByteAt(bs, off + 25)>>

\* the frame of LED i within a run's bits
FrameOf(bs, i) == BytesAfter(bs, SofBits + FrameBits * i)

\* the LEDs whose frame a run has clocked out in full
FramesSent(bs) ==
  { i \in Leds : Len(bs) >= SofBits + FrameBits * (i + 1) }

\* the frame the claims expect for property values p
ExpectedFrame(p) ==
  <<224 + Quantize(IF p.on THEN p.level ELSE 0),
    Color(p.color).blue, Color(p.color).green, Color(p.color).red>>

Completed == pc = "idle" /\ outcome = "ok"

AllZero(bs, from, to) == \A k \in from .. to : bs[k] = 0

(***************************************************************************)
(* The brightness byte on its own: the level property holds any number a   *)
(* setValue stores; the byte is the first one BlinktDevice.sendProperties  *)
(* clocks out for it.                                                      *)
(***************************************************************************)
LevelInputs == (0 - MaxLevel) .. (3 * MaxLevel)

InitB ==
  /\ InitProgram
  /\ q \in [level : LevelInputs, on : BOOLEAN, byte : {0}, done : {FALSE}]

ApplyBrightness ==
  /\ ~q.done
  /\ LET p == [on |-> q.on, color |-> White, level |-> q.level]
         ws == sendDeviceProperties(EffectiveLevel(p), Color(p.color))
     IN q' = [q EXCEPT !.byte = ByteAt(Transmitted(ws, 0), 1), !.done = TRUE]
  /\ UNCHANGED <<chain, pendingSend, timer, timers, pc, x, gpioDAT, gpioCLK,
                 wire, bits, outcome, snap, requested, sets, requests, bursts,
                 flushes, ended, faults, sinceSignal, unsent>>

NextB == ApplyBrightness

SpecB == InitB /\ [][NextB]_vars

(***************************************************************************)
(* Claims.                                                                 *)
(***************************************************************************)

\* C1: sendProperties calls that each come less than Delay after the one
\* before form one burst.  A burst produces one doSendProperties run, not
\* one for each call: the runs started are never more than the bursts, less
\* the burst whose timer is still outstanding; no run starts between two
\* calls of a burst; and the run that a timer starts leaves no timer, so no
\* second run follows without a further call.
C1_DebounceCoalescing ==
  /\ [](flushes + (IF Outstanding # {} THEN 1 ELSE 0) <= bursts)
  /\ [](Outstanding = {} => flushes >= 1)
  /\ [][ flushes' # flushes =>
           /\ flushes' = flushes + 1
           /\ sinceSignal >= Delay
           /\ Outstanding' = {} ]_vars
  /\ [][ (requests' # requests /\ sinceSignal < Delay) =>
           /\ bursts' = bursts
           /\ flushes' = flushes
           /\ Outstanding = {timer}
           /\ Outstanding' = {timer'} ]_vars

\* three sendProperties calls in one burst have produced one completed run
C1_Witness ==
  /\ requests = 3
  /\ bursts = 1
  /\ flushes = 1
  /\ Completed

\* C2: a sendProperties call leaves exactly one timer, newly started at age
\* 0, whatever timer was running before; and a doSendProperties run starts
\* only when Delay has passed since the latest sendProperties call.
C2_NoEarlyFlush ==
  [][ /\ (flushes' # flushes => sinceSignal >= Delay)
      /\ (requests' # requests =>
            /\ Outstanding' = {timer'}
            /\ timers'[timer'] = 0) ]_vars

\* a run has just started after a call that arrived while a send was pending
C2_Witness ==
  /\ pc = "dev"
  /\ x = 0
  /\ requests >= 2
  /\ bursts = 1

\* C3: the frames of a completed run encode, for every LED, the values stored
\* when the timer expired, and those values stay the stored ones while the
\* run is under way.
C3_SnapshotAtExpiry ==
  /\ (pc # "idle" => chain = snap)
  /\ (Completed => \A i \in Leds : FrameOf(bits, i) = ExpectedFrame(snap[i]))

\* a completed run whose values at expiry differ from those at the request
C3_Witness ==
  /\ Completed
  /\ snap # requested
  /\ \E i \in Settable : FrameOf(bits, i) # ExpectedFrame(requested[i])

\* C4: a setValue with the value the property already holds (the stored
\* values stay as they are) calls neither sendProperties nor the timer
\* functions and writes no line, whether a send is pending or not.
C4_NoOpSetIsSilent ==
  [][ (sets' = sets + 1 /\ chain' = chain) =>
        UNCHANGED <<pendingSend, timer, timers, requests, bursts, flushes,
                    ended, pc, wire, bits, gpioDAT, gpioCLK>> ]_vars

\* a setValue was made after the only run, and no send was requested by it
C4_Witness ==
  /\ sets = 1
  /\ requests = 1
  /\ flushes = 1
  /\ ~pendingSend
  /\ Outstanding = {}

\* C5: a completed run has clocked out 32 zero bits, then eight 32-bit
\* frames, LED 0 first and LED 7 last, each starting with three one bits and
\* carrying its LED's colour, then 36 zero bits: 324 clock pulses made by 972
\* line writes.
C5_FrameStructure ==
  Completed =>
    /\ Len(bits) = SofBits + NumLeds * FrameBits + EofBits
    /\ Len(bits) = 324
    /\ Len(wire) = 3 * Len(bits)
    /\ AllZero(bits, 1, SofBits)
    /\ AllZero(bits, Len(bits) - EofBits + 1, Len(bits))
    /\ \A i \in Leds :
         /\ FrameOf(bits, i)[1] \div 32 = 7
         /\ SubSeq(FrameOf(bits, i), 2, 4) = SubSeq(ExpectedFrame(snap[i]), 2, 4)

\* a completed run in which the first and the last LED differ from the rest
C5_Witness ==
  /\ Completed
  /\ snap[0].color = Teal
  /\ snap[NumLeds - 1].on
  /\ FrameOf(bits, 0) # FrameOf(bits, 1)
  /\ FrameOf(bits, NumLeds - 1) # FrameOf(bits, 1)

\* the bytes clocked out for an LED that is on, #00ff00, at level 100
GreenFrame ==
  BytesAfter(Transmitted(sendDeviceProperties(MaxLevel, Color(Green)), 0), 0)

\* C6: every frame a run has clocked out in full, whether the run is under
\* way, completed or failed, is the bytes 0xE0 | quantised effective level,
\* blue, green, red of its LED, most significant bit first; on, #00ff00,
\* level 100 gives 0xEF 0x00 0xFF 0x00.
C6_ChannelFrameContent ==
  /\ \A i \in FramesSent(bits) : FrameOf(bits, i) = ExpectedFrame(snap[i])
  /\ GreenFrame = <<239, 0, 255, 0>>

\* the frame of a lit LED with three different colour bytes has gone out
C6_Witness ==
  /\ 0 \in FramesSent(bits)
  /\ snap[0].on
  /\ snap[0].color = Teal
  /\ FrameOf(bits, 0) = <<225, 196, 128, 18>>

\* C7: the frame of an LED that is off has the brightness byte 0xE0 and the
\* stored colour, whatever the stored level; and a setValue that changes on
\* changes neither the stored colour nor the stored level.
C7_OffKeepsColor ==
  /\ [](\A i \in FramesSent(bits) :
          ~snap[i].on =>
            /\ FrameOf(bits, i)[1] = 224
            /\ SubSeq(FrameOf(bits, i), 2, 4)
                 = <<Color(snap[i].color).blue, Color(snap[i].color).green,
                     Color(snap[i].color).red>>)
  /\ [][ \A i \in Leds :
           chain'[i].on # chain[i].on =>
             /\ chain'[i].color = chain[i].color
             /\ chain'[i].level = chain[i].level ]_vars

\* a completed run with an LED that is off, at level 100 and not white
C7_Witness ==
  /\ Completed
  /\ ~snap[0].on
  /\ snap[0].level = MaxLevel
  /\ snap[0].color = Teal
  /\ FrameOf(bits, 0) = <<224, 196, 128, 18>>

\* C8: for all integer levels in 0 .. 100 the quantised level is level * 15
\* / 100 rounded to the nearest integer, halves up; it lies in 0 .. 15, is
\* monotonic, and is 0 for level 0 and 15 for level 100.
C8_Quantization ==
  q.done =>
    /\ q.qa \in 0 .. 15
    /\ 100 * q.qa - 50 <= 15 * q.a
    /\ 15 * q.a < 100 * q.qa + 50
    /\ (q.a <= q.b => q.qa <= q.qb)
    /\ (q.a = 0 => q.qa = 0)
    /\ (q.a = MaxLevel => q.qa = 15)

\* a half is rounded up (level 50 gives 7.5, quantised to 8) below level 100
C8_Witness ==
  /\ q.done
  /\ q.a = 50
  /\ q.qa = 8
  /\ q.b = MaxLevel
  /\ q.qb = 15

\* C9: at most one doSendProperties run is under way; while one is, no run
\* starts, no setValue changes a stored value and no sendProperties call is
\* made, so the writes on the wire are those of one run, made from the values
\* stored when it started.
C9_FlushAtomicity ==
  /\ [](flushes - ended = (IF pc = "idle" THEN 0 ELSE 1))
  /\ [](Len(wire) <= 3 * (SofBits + NumLeds * FrameBits + EofBits))
  /\ [][ pc # "idle" =>
           /\ flushes' = flushes
           /\ chain' = chain
           /\ sets' = sets
           /\ requests' = requests
           /\ pendingSend' = pendingSend
           /\ timer' = timer
           /\ timers' = timers
           /\ snap' = snap
           /\ Len(wire') >= Len(wire)
           /\ SubSeq(wire', 1, Len(wire)) = wire ]_vars

\* a run is half-way through its LEDs after two setValue calls
C9_Witness ==
  /\ pc = "dev"
  /\ x = 4
  /\ sets = 2
  /\ flushes - ended = 1

\* C10: at most one timer is outstanding, and it is the one adapter.timer
\* holds; it is outstanding exactly while a send is pending.
C10_OneTimer ==
  /\ Cardinality(Outstanding) <= 1
  /\ Outstanding # {} => Outstanding = {timer}
  /\ pendingSend <=> Outstanding # {}

\* a timer is outstanding that was started after an earlier one fired and
\* another was cancelled
C10_Witness ==
  /\ requests = 3
  /\ flushes = 1
  /\ Outstanding = {timer}
  /\ timers[timer] > 0

\* the frame of an LED with the constructor's values: off, #ffffff
DefaultFrame == <<224, 255, 255, 255>>

\* C11 as stated: the first doSendProperties run after construction encodes
\* the default values (0xE0 0xFF 0xFF 0xFF for every LED), also when a
\* setValue comes shortly after construction.
C11_StartupFlushIsDefault ==
  flushes = 1 => \A i \in FramesSent(bits) : FrameOf(bits, i) = DefaultFrame

\* C11 amended: construction leaves one send pending and no line written; the
\* first run starts when Delay has passed since the latest sendProperties
\* call, from the values stored then, which are the default ones when no
\* setValue has called sendProperties since construction, and then every
\* frame of that run is 0xE0 0xFF 0xFF 0xFF.
C11_StartupFlush ==
  /\ [](flushes = 0 =>
          /\ pendingSend
          /\ Outstanding = {timer}
          /\ wire = <<>>
          /\ bits = <<>>)
  /\ [][ (flushes = 0 /\ flushes' # 0) =>
           /\ flushes' = 1
           /\ sinceSignal >= Delay
           /\ snap' = chain
           /\ (requests = 1 => snap' = DefaultChain) ]_vars
  /\ []((flushes = 1 /\ snap = DefaultChain) =>
          \A i \in FramesSent(bits) : FrameOf(bits, i) = DefaultFrame)

\* the first run has completed with no sendProperties call but the
\* constructor's, and its eight frames are the default one
C11_Witness ==
  /\ Completed
  /\ flushes = 1
  /\ requests = 1
  /\ \A i \in Leds : FrameOf(bits, i) = DefaultFrame

\* the writes of the LEDs i, i + 1, ... of a run made from the values c, as
\* far as the first n writes of them need
RECURSIVE DevWrites(_, _, _)
DevWrites(c, i, n) ==
  IF i = NumLeds \/ n <= 0 THEN <<>>
  ELSE sendDeviceProperties(EffectiveLevel(c[i]), Color(c[i].color))
       \o DevWrites(c, i + 1, n - 3 * FrameBits)

\* the first n writes of a whole run made from the values c
RunPrefix(c, n) ==
  SubSeq(sof \o DevWrites(c, 0, n - Len(sof)) \o eof, 1, n)

WholeRun == 3 * (SofBits + NumLeds * FrameBits + EofBits)

\* C12: a step in which a line write fails ends the run: the writes made are
\* those of a whole run up to the failing one and no more, doSendProperties
\* is left with the outcome "failed", and no line is written after that
\* until the next run starts.
C12_LineWriteFailureIsFatal ==
  /\ [][ faults' # faults =>
           /\ pc' = "idle"
           /\ outcome' = "failed"
           /\ ended' = ended + 1
           /\ Len(wire') < WholeRun
           /\ wire' = RunPrefix(snap', Len(wire')) ]_vars
  /\ [][ (pc = "idle" /\ outcome = "failed" /\ flushes' = flushes) =>
           /\ pc' = "idle"
           /\ outcome' = "failed"
           /\ UNCHANGED <<wire, bits, gpioDAT, gpioCLK>> ]_vars

\* the 400th write of a run, in the frame of LED 3, has failed: 399 writes
\* and 133 clock pulses were made and the run is over
C12_Witness ==
  /\ pc = "idle"
  /\ outcome = "failed"
  /\ faults = 1
  /\ Len(wire) = 399
  /\ Len(bits) = 133
  /\ FramesSent(bits) = {0, 1, 2}

\* C13 as stated: a setValue with a colour string that Color() cannot parse
\* leaves the stored colour as it was, so every stored colour is parseable,
\* and no run ends with an exception other than that of a failed line write.
C13_MalformedColorRejected ==
  /\ \A i \in Leds : Parseable(chain[i].color)
  /\ (outcome = "failed" => faults > 0)

\* C14 as stated: a run starts at most Delay after every setValue whose
\* changed value it is the first to send.
C14_BoundedLatency == [][ flushes' # flushes => unsent <= Delay ]_vars

\* C14 amended: a run starts when the timer of the latest sendProperties
\* call has run for Delay or longer, so Delay or more after the latest call
\* and after every setValue whose change it is the first to send: a setValue
\* is older than its timer when later calls have restarted the timer, and its
\* send is pending until the run starts.
C14_LatencyFromLatestSignal ==
  /\ [](unsent >= 0 =>
          /\ pendingSend
          /\ Outstanding = {timer}
          /\ timers[timer] <= unsent)
  /\ [][ flushes' # flushes =>
           /\ timers[timer] >= Delay
           /\ sinceSignal = Delay
           /\ (unsent >= 0 => unsent >= timers[timer])
           /\ unsent' = -1 ]_vars

\* the timer has expired Delay after the second of two setValue calls that
\* were Quantum apart: the run that starts is the first to send either change
C14_Witness ==
  /\ pc = "idle"
  /\ sets = 2
  /\ requests = 3
  /\ flushes = 0
  /\ timers[timer] = Delay
  /\ unsent = Delay + Quantum

\* C15 as stated: a setValue that changes a value leaves a send pending until
\* a run starts; and when the sendProperties calls have stopped and no line
\* write has failed, the run that follows leaves no send pending and its
\* frames encode the stored values.
C15_EventualFlush ==
  /\ (unsent >= 0 => (pendingSend /\ Outstanding = {timer}))
  /\ ((pc = "idle" /\ ~pendingSend /\ faults = 0) =>
        /\ outcome = "ok"
        /\ \A i \in Leds : FrameOf(bits, i) = ExpectedFrame(chain[i]))

Max(a, b) == IF a >= b THEN a ELSE b

\* C16 as stated: whatever number the level property holds, the brightness
\* byte of an LED that is on has the top three bits 111 and the low five bits
\* the quantised value of the level clamped to 0 .. 100.
C16_LevelClamped ==
  (q.done /\ q.on) =>
    /\ q.byte \div 32 = 7
    /\ q.byte % 32 = Quantize(Min(MaxLevel, Max(0, q.level)))

\* C17: when a run fails no send is pending and no timer is outstanding;
\* while that is so and no sendProperties call is made, no run starts and no
\* timer appears; and the next sendProperties call after a failed run
\* leaves a send pending with one timer of age 0, which a run awaits for the
\* whole Delay.
C17_NoAutomaticRetry ==
  [][ /\ ((ended' # ended /\ outcome' = "failed") =>
            /\ pc' = "idle"
            /\ ~pendingSend'
            /\ Outstanding' = {})
      /\ ((~pendingSend /\ Outstanding = {} /\ requests' = requests) =>
            /\ flushes' = flushes
            /\ ~pendingSend'
            /\ Outstanding' = {})
      /\ ((pc = "idle" /\ outcome = "failed" /\ requests' # requests) =>
            /\ pendingSend'
            /\ Outstanding' = {timer'}
            /\ timers'[timer'] = 0)
      /\ ((outcome = "failed" /\ flushes' # flushes) =>
            /\ timers[timer] >= Delay
            /\ sinceSignal = Delay) ]_vars

\* the first run failed at a line write, and the setValue made since then
\* has called sendProperties, whose timer is running
C17_Witness ==
  /\ pc = "idle"
  /\ outcome = "failed"
  /\ faults = 1
  /\ flushes = 1
  /\ ended = 1
  /\ requests = 2
  /\ unsent = Quantum
  /\ pendingSend
  /\ timers[timer] = Quantum

\* the writes a step adds to the wire
NewWrites ==
  IF flushes' # flushes THEN wire'
  ELSE SubSeq(wire', Len(wire) + 1, Len(wire'))

\* the k-th write of a run is that of _write_bit: data, clock up, clock down
InBitOrder(ws) ==
  \A k \in 1 .. Len(ws) :
    CASE k % 3 = 1 -> ws[k][1] = "DAT"
      [] k % 3 = 2 -> ws[k] = <<"CLK", 1>>
      [] k % 3 = 0 -> ws[k] = <<"CLK", 0>>

\* C18 as stated: the writes of a run are the triples data := bit, clock := 1,
\* clock := 0, one for each bit; every write to the data line is made while
\* the clock line is 0; and after a completed run both lines are 0.
C18_BitOrdering ==
  /\ [](InBitOrder(wire))
  /\ [](Len(bits) = (Len(wire) + 1) \div 3)
  /\ [][ \A j \in 1 .. Len(NewWrites) :
           NewWrites[j][1] = "DAT" =>
             LineAfter(NewWrites, "CLK", j - 1, gpioCLK) = 0 ]_vars
  /\ [](Completed => (gpioCLK = 0 /\ gpioDAT = 0))

\* C18 amended: the writes of a run are the triples data := bit, clock := 1,
\* clock := 0, one for each bit; every write to the data line but the first of
\* a run is made after a clock := 0 write of that run, and the first is made
\* on the clock line as the run before left it.  The clock line is left at 1
\* only by a failed run: one that failed at a clock := 0 write, or one that
\* found the clock at 1 and failed before its first clock := 0 write.  After
\* a completed run both lines are 0.
C18_BitOrderingWithinRun ==
  /\ [](InBitOrder(wire))
  /\ [](Len(bits) = (Len(wire) + 1) \div 3)
  /\ [][ \A j \in 1 .. Len(NewWrites) :
           NewWrites[j][1] = "DAT" =>
             /\ (j > 1 => NewWrites[j - 1] = <<"CLK", 0>>)
             /\ (j = 1 => (flushes' # flushes \/ gpioCLK = 0)) ]_vars
  /\ [](gpioCLK = 1 =>
          (outcome = "failed" /\ (Len(wire) % 3 = 2 \/ Len(wire) < 2)))
  /\ []((outcome = "failed" /\ Len(wire) % 3 = 2) => gpioCLK = 1)
  /\ [][ (flushes' # flushes /\ gpioCLK' = 1 /\ Len(wire') < 2) =>
           gpioCLK = 1 ]_vars
  /\ [](Completed => (gpioCLK = 0 /\ gpioDAT = 0))

\* the first run failed at its first clock := 0 write and left the clock at 1;
\* the second run wrote its first data bit on that clock and failed at its
\* first clock := 1 write, before any clock := 0 write: the clock is still 1
C18_Witness ==
  /\ pc = "idle"
  /\ outcome = "failed"
  /\ flushes = 2
  /\ faults = 2
  /\ Len(wire) = 1
  /\ wire[1][1] = "DAT"
  /\ InBitOrder(wire)
  /\ gpioCLK = 1

\* the latest run completed and its frames encode the stored values
InSync ==
  /\ flushes >= 1
  /\ outcome = "ok"
  /\ \A i \in Leds :
       /\ Parseable(chain[i].color)
       /\ FrameOf(bits, i) = ExpectedFrame(chain[i])

\* C19: the states of the program are those between the callbacks of the
\* event loop (doSendProperties runs to its end inside the timer callback).
\* In each of them, when the latest run has not failed, and so whenever no
\* run has failed: if no send is pending and no timer is outstanding, a run
\* has completed and the frames of the latest run encode the stored values;
\* and if they do not, or no run has completed, a send is pending with its
\* timer outstanding.  Inside a run the frames sent so far encode the stored
\* values.
C19_IdleImpliesInSync ==
  [](outcome # "failed" =>
       /\ ((pc = "idle" /\ ~pendingSend /\ Outstanding = {}) => InSync)
       /\ ((pc = "idle" /\ ~InSync) => (pendingSend /\ Outstanding = {timer}))
       /\ (pc # "idle" =>
             \A i \in FramesSent(bits) :
               FrameOf(bits, i) = ExpectedFrame(chain[i])))

\* nothing is pending after the second of two completed runs, which sent
\* values other than the default ones
C19_Witness ==
  /\ faults = 0
  /\ outcome = "ok"
  /\ pc = "idle"
  /\ ~pendingSend
  /\ Outstanding = {}
  /\ flushes = 2
  /\ chain # DefaultChain
  /\ InSync

\* C20: a setValue (with the sendProperties, clearTimeout and setTimeout it
\* calls) and the passing of time write no line; the lines and the wire
\* change only in the steps of doSendProperties: the timer callback that
\* starts a run, and the steps inside one.
C20_LinesOnlyInFlush ==
  [][ /\ (sets' # sets => UNCHANGED <<gpioDAT, gpioCLK, wire, bits>>)
      /\ (requests' # requests => UNCHANGED <<gpioDAT, gpioCLK, wire, bits>>)
      /\ ((timers' # timers /\ flushes' = flushes) =>
            UNCHANGED <<gpioDAT, gpioCLK, wire, bits>>)
      /\ ((gpioDAT' # gpioDAT \/ gpioCLK' # gpioCLK \/ wire' # wire) =>
            /\ sets' = sets
            /\ requests' = requests
            /\ (pc = "idle" => (flushes' = flushes + 1 /\ timers[timer] >= Delay))
            /\ (pc # "idle" => (flushes' = flushes /\ timers' = timers))) ]_vars

\* two setValue calls made after a completed run have cancelled and started
\* timers, and the wire still holds the writes of that run
C20_Witness ==
  /\ flushes = 1
  /\ Completed
  /\ sets = 2
  /\ requests = 3
  /\ pendingSend
  /\ timers[timer] = 0
  /\ Len(wire) = WholeRun
  /\ gpioDAT = 0
  /\ gpioCLK = 0

====
